---- MODULE Spec2Model ----
(***************************************************************************)
(* Model of minitorch/module.py: the Module tree (parameter mapping, child *)
(* mapping, plain instance fields, training flag) and the Parameter cell.  *)
(*                                                                         *)
(* A Python value is a record [t, id]: t is its runtime type, id tells the *)
(* objects of one type apart.  A name (str) is a sequence of characters,   *)
(* so that f"{child}.{key}" is a real concatenation.  An optional name is  *)
(* <<>> for None and <<n>> for the string n.  A dict is the sequence of    *)
(* its <<key, value>> items in insertion order, keys distinct.             *)
(***************************************************************************)
EXTENDS Integers, Sequences, FiniteSets, TLC

VARIABLES modules, parameters, variables, last, read, ops

vars == <<modules, parameters, variables, last, read, ops>>

----------------------------------------------------------------------------
(* Bounds and input sets *)

\* number of state-changing calls in one run
MaxOps == 3

ModuleIds == {1, 2, 3}
VarIds == {1, 2}

DOT == "."
\* attribute names: "a", "b" and "a.b"
Names == {<<"a">>, <<"b">>, <<"a", DOT, "b">>}
TRAINING == <<"training">>
FieldKeys == Names \cup {TRAINING}

\* optional names: None, or the str n (which may be the empty str)
NoName == <<>>
Some(n) == <<n>>
EmptyStr == <<>>

----------------------------------------------------------------------------
(* Python values *)

PyInt(i) == [t |-> "int", id |-> i]
PyBool(b) == [t |-> "bool", id |-> IF b THEN 1 ELSE 0]
PyNone == [t |-> "None", id |-> 0]
ParamRef(p) == [t |-> "Parameter", id |-> p]
ModRef(m) == [t |-> "Module", id |-> m]
VarRef(v) == [t |-> "Variable", id |-> v]
Missing == [t |-> "missing", id |-> 0]
AttributeError == [t |-> "AttributeError", id |-> 0]

PlainVals == {PyInt(5)}
VarVals == {VarRef(v) : v \in VarIds}
Payloads == PlainVals \cup VarVals

\* hasattr(x, "requires_grad_")
HasRequiresGrad(x) == x.t = "Variable"

\* truth value of an optional str: None and "" are false
Truthy(optname) == optname # NoName /\ optname[1] # EmptyStr

----------------------------------------------------------------------------
(* dict *)

DictKeys(d) == [i \in 1..Len(d) |-> d[i][1]]
DictValues(d) == [i \in 1..Len(d) |-> d[i][2]]
DictHas(d, k) == \E i \in 1..Len(d) : d[i][1] = k
DictGet(d, k) == d[CHOOSE i \in 1..Len(d) : d[i][1] = k][2]

\* d[k] = v: an existing key keeps its place, a new key goes last
DictSet(d, k, v) ==
    IF DictHas(d, k)
    THEN [i \in 1..Len(d) |-> IF d[i][1] = k THEN <<k, v>> ELSE d[i]]
    ELSE Append(d, <<k, v>>)

\* d.update(e)
RECURSIVE DictUpdate(_, _)
DictUpdate(d, e) ==
    IF e = <<>> THEN d
    ELSE DictUpdate(DictSet(d, e[1][1], e[1][2]), Tail(e))

----------------------------------------------------------------------------
(* Parameter *)

\* if hasattr(x, "requires_grad_"): x.requires_grad_(True), and
\* x.name = name when name is true
TrackValue(vs, x, optname) ==
    IF HasRequiresGrad(x)
    THEN [vs EXCEPT ![x.id] =
            [requires_grad |-> TRUE,
             name |-> IF Truthy(optname) THEN optname ELSE @.name]]
    ELSE vs

\* Parameter.__init__(x, name): the new cell
ParameterInit(x, optname) == [value |-> x, name |-> optname]

\* a Parameter.update that rebuilds the cell and drops its name
ParameterUpdateRenames(c, x) == [value |-> x, name |-> NoName]

\* Parameter.update(x) on cell c: self.value = x
ParameterUpdate(c, x) == [c EXCEPT !.value = x]

----------------------------------------------------------------------------
(* Module *)

\* Module.__init__
ModuleInit ==
    [_modules |-> <<>>,
     _parameters |-> <<>>,
     dict |-> [k \in FieldKeys |-> IF k = TRAINING THEN PyBool(TRUE) ELSE Missing]]

\* Module.modules(): the values of _modules
Modules(ms, m) == DictValues(ms[m]._modules)

\* a __setattr__ that keeps children in a list: a Module is appended
\* under its name even when the name is already there
SetAttrNoReplace(ms, m, key, val) ==
    IF val.t = "Parameter"
    THEN [ms EXCEPT ![m]._parameters = DictSet(@, key, val.id)]
    ELSE IF val.t = "Module"
    THEN [ms EXCEPT ![m]._modules = Append(@, <<key, val.id>>)]
    ELSE [ms EXCEPT ![m].dict[key] = val]

\* Module.__setattr__(key, val) on module m
SetAttr(ms, m, key, val) ==
    IF val.t = "Parameter"
    THEN [ms EXCEPT ![m]._parameters = DictSet(@, key, val.id)]
    ELSE IF val.t = "Module"
    THEN [ms EXCEPT ![m]._modules = DictSet(@, key, val.id)]
    ELSE [ms EXCEPT ![m].dict[key] = val]

\* Module.__getattr__(key): only reached when normal lookup fails
GetAttrFallback(ms, m, key) ==
    IF DictHas(ms[m]._parameters, key)
    THEN ParamRef(DictGet(ms[m]._parameters, key))
    ELSE IF DictHas(ms[m]._modules, key)
    THEN ModRef(DictGet(ms[m]._modules, key))
    ELSE PyNone

\* the attribute read m.key: the instance dict first, then __getattr__
GetAttr(ms, m, key) ==
    IF ms[m].dict[key] # Missing
    THEN ms[m].dict[key]
    ELSE GetAttrFallback(ms, m, key)

\* a train() whose flag is shared by all modules
TrainEverything(ms, m) ==
    [n \in DOMAIN ms |-> [ms[n] EXCEPT !.dict[TRAINING] = PyBool(TRUE)]]

\* Module.train(): self first, then every child in _modules order
RECURSIVE Train(_, _)
RECURSIVE TrainChildren(_, _)
Train(ms, m) ==
    LET ms1 == SetAttr(ms, m, TRAINING, PyBool(TRUE))
    IN  TrainChildren(ms1, Modules(ms1, m))
TrainChildren(ms, cs) ==
    IF cs = <<>> THEN ms
    ELSE TrainChildren(Train(ms, Head(cs)), Tail(cs))

\* an eval() that does not descend into the children
EvalShallow(ms, m) == SetAttr(ms, m, TRAINING, PyBool(FALSE))

\* Module.eval()
RECURSIVE Eval(_, _)
RECURSIVE EvalChildren(_, _)
Eval(ms, m) ==
    LET ms1 == SetAttr(ms, m, TRAINING, PyBool(FALSE))
    IN  EvalChildren(ms1, Modules(ms1, m))
EvalChildren(ms, cs) ==
    IF cs = <<>> THEN ms
    ELSE EvalChildren(Eval(ms, Head(cs)), Tail(cs))

\* child parameters merged under their local names, without the prefix
PrefixKeysBare(child, items) == items

\* {f"{child}.{key}": value for key, value in child_params.items()}
PrefixKeys(child, items) ==
    [j \in 1..Len(items) |-> <<child \o <<DOT>> \o items[j][1], items[j][2]>>]

\* Module._named_parameters(): own parameters, then each child's, merged
RECURSIVE NamedParametersDict(_, _)
RECURSIVE MergeChildren(_, _, _)

\* a _named_parameters that collects the children first and the module's
\* own parameters last
NamedParametersDictChildrenFirst(ms, m) ==
    DictUpdate(MergeChildren(ms, <<>>, ms[m]._modules), ms[m]._parameters)

NamedParametersDict(ms, m) ==
    MergeChildren(ms, ms[m]._parameters, ms[m]._modules)
MergeChildren(ms, my_parameters, children) ==
    IF children = <<>> THEN my_parameters
    ELSE LET child == children[1][1]
             child_params == NamedParametersDict(ms, children[1][2])
         IN  MergeChildren(ms,
                           DictUpdate(my_parameters, PrefixKeys(child, child_params)),
                           Tail(children))

\* Module.named_parameters(): list of (name, Parameter) pairs
NamedParameters(ms, m) == NamedParametersDict(ms, m)

\* Module.parameters()
Parameters(ms, m) == DictValues(NamedParameters(ms, m))

----------------------------------------------------------------------------
(* State machine.  last is the most recent state-changing call, read the   *)
(* most recent read made since (NoCall when there is none), each with its  *)
(* receiver, arguments and return value; ops counts state-changing calls.  *)

Call(op, self, key, arg, ret) ==
    [op |-> op, self |-> self, key |-> key, arg |-> arg, ret |-> ret]

NoCall == Call("none", 0, <<>>, PyNone, PyNone)

Init ==
    /\ modules = [m \in ModuleIds |-> ModuleInit]
    /\ parameters = <<>>
    /\ variables = [v \in VarIds |-> [requires_grad |-> FALSE, name |-> Some(<<"v">>)]]
    /\ last = NoCall
    /\ read = NoCall
    /\ ops = 0

\* m is reachable from c through _modules (c = m included)
RECURSIVE Reaches(_, _, _)
Reaches(ms, c, m) ==
    \/ c = m
    \/ \E i \in 1..Len(ms[c]._modules) : Reaches(ms, ms[c]._modules[i][2], m)

\* p = Parameter(x, name)
NewParameterCall(x, optname) ==
    /\ ops < MaxOps
    /\ parameters' = Append(parameters, ParameterInit(x, optname))
    /\ variables' = TrackValue(variables, x, optname)
    /\ last' = Call("Parameter", 0, optname, x, ParamRef(Len(parameters) + 1))
    /\ ops' = ops + 1
    /\ read' = NoCall
    /\ UNCHANGED modules

\* p.update(x); the call record keeps the name p had when called
UpdateCall(p, x) ==
    /\ ops < MaxOps
    /\ p \in 1..Len(parameters)
    /\ parameters' = [parameters EXCEPT ![p] = ParameterUpdate(@, x)]
    /\ variables' = TrackValue(variables, x, parameters[p].name)
    /\ last' = Call("update", p, parameters[p].name, x, PyNone)
    /\ ops' = ops + 1
    /\ read' = NoCall
    /\ UNCHANGED modules

\* m.add_parameter(k, v)
AddParameterCall(m, k, v) ==
    /\ ops < MaxOps
    /\ LET val == Len(parameters) + 1
       IN  /\ parameters' = Append(parameters, ParameterInit(v, Some(k)))
           /\ variables' = TrackValue(variables, v, Some(k))
           /\ modules' = [modules EXCEPT ![m]._parameters = DictSet(@, k, val)]
           /\ last' = Call("add_parameter", m, k, v, ParamRef(val))
    /\ ops' = ops + 1
    /\ read' = NoCall

\* m.key = val, val an existing Parameter, a Module that keeps the tree
\* acyclic, or a plain value
SetAttrCall(m, key, val) ==
    /\ ops < MaxOps
    /\ val.t = "Parameter" => val.id \in 1..Len(parameters)
    /\ val.t = "Module" => ~Reaches(modules, val.id, m)
    /\ modules' = SetAttr(modules, m, key, val)
    /\ last' = Call("setattr", m, key, val, PyNone)
    /\ ops' = ops + 1
    /\ read' = NoCall
    /\ UNCHANGED <<parameters, variables>>

\* m.train()
TrainCall(m) ==
    /\ ops < MaxOps
    /\ modules' = Train(modules, m)
    /\ last' = Call("train", m, <<>>, PyNone, PyNone)
    /\ ops' = ops + 1
    /\ read' = NoCall
    /\ UNCHANGED <<parameters, variables>>

\* m.eval()
EvalCall(m) ==
    /\ ops < MaxOps
    /\ modules' = Eval(modules, m)
    /\ last' = Call("eval", m, <<>>, PyNone, PyNone)
    /\ ops' = ops + 1
    /\ read' = NoCall
    /\ UNCHANGED <<parameters, variables>>

\* the read m.key
GetAttrCall(m, key) ==
    /\ read' = Call("getattr", m, key, PyNone, GetAttr(modules, m, key))
    /\ UNCHANGED <<modules, parameters, variables, last, ops>>

\* list(m.modules())
ModulesCall(m) ==
    /\ read' = Call("modules", m, <<>>, PyNone, Modules(modules, m))
    /\ UNCHANGED <<modules, parameters, variables, last, ops>>

\* m.named_parameters()
NamedParametersCall(m) ==
    /\ read' = Call("named_parameters", m, <<>>, PyNone, NamedParameters(modules, m))
    /\ UNCHANGED <<modules, parameters, variables, last, ops>>

----------------------------------------------------------------------------
(* Specifications *)

ExistingParams == {ParamRef(p) : p \in 1..Len(parameters)}
ModuleVals == {ModRef(m) : m \in ModuleIds}
OptNames == {NoName} \cup {Some(n) : n \in Names \cup {EmptyStr}}

\* attribute storage of one module; the other modules are values assigned
\* to its attributes
Receivers == {1}

Next ==
    \/ \E x \in PlainVals : NewParameterCall(x, NoName)
    \/ \E m \in Receivers, k \in Names, v \in PlainVals : AddParameterCall(m, k, v)
    \/ \E m \in Receivers, k \in Names, val \in ExistingParams \cup ModuleVals \cup PlainVals :
          SetAttrCall(m, k, val)
    \/ \E m \in Receivers, k \in Names : GetAttrCall(m, k)
    \/ \E m \in Receivers : ModulesCall(m)

Spec == Init /\ [][Next]_vars

\* the module tree: parameters, children, modes, enumeration
NextTree ==
    \/ \E m \in ModuleIds, k \in Names, v \in PlainVals : AddParameterCall(m, k, v)
    \/ \E m \in ModuleIds, k \in Names, c \in ModuleVals : SetAttrCall(m, k, c)
    \/ \E m \in ModuleIds : TrainCall(m)
    \/ \E m \in ModuleIds : EvalCall(m)
    \/ \E m \in ModuleIds : NamedParametersCall(m)

SpecTree == Init /\ [][NextTree]_vars

\* Parameter cells and the values they wrap
NextParam ==
    \/ \E x \in Payloads, n \in OptNames : NewParameterCall(x, n)
    \/ \E p \in 1..Len(parameters), x \in Payloads : UpdateCall(p, x)

SpecParam == Init /\ [][NextParam]_vars

----------------------------------------------------------------------------
(* Reference notions used by the properties *)

SeqToSet(q) == {q[i] : i \in 1..Len(q)}

\* m and every module below it
Descendants(ms, m) == {d \in ModuleIds : Reaches(ms, m, d)}

\* the training flag of module m
Training(ms, m) == ms[m].dict[TRAINING]

\* the parameters of m's subtree as <<chain of child names, local name,
\* Parameter>>: m's own first, then child by child
RECURSIVE Slots(_, _)
RECURSIVE ChildSlots(_, _)
Slots(ms, m) ==
    [i \in 1..Len(ms[m]._parameters) |->
        <<<<>>, ms[m]._parameters[i][1], ms[m]._parameters[i][2]>>]
    \o ChildSlots(ms, ms[m]._modules)
ChildSlots(ms, children) ==
    IF children = <<>> THEN <<>>
    ELSE LET below == Slots(ms, children[1][2])
         IN  [i \in 1..Len(below) |->
                <<<<children[1][1]>> \o below[i][1], below[i][2], below[i][3]>>]
             \o ChildSlots(ms, Tail(children))

\* the chain's names joined by '.', then '.' and the local name
RECURSIVE DottedName(_, _)
DottedName(chain, local) ==
    IF chain = <<>> THEN local
    ELSE Head(chain) \o <<DOT>> \o DottedName(Tail(chain), local)

ExpectedPairs(ms, m) ==
    LET sl == Slots(ms, m)
    IN  [i \in 1..Len(sl) |-> <<DottedName(sl[i][1], sl[i][2]), sl[i][3]>>]

\* no two parameters of m's subtree have the same dotted name
NoCollision(ms, m) ==
    LET e == ExpectedPairs(ms, m)
    IN  \A i, j \in 1..Len(e) : i # j => e[i][1] # e[j][1]

\* name is stored in none of the three places of module m
Absent(ms, m, key) ==
    /\ ms[m].dict[key] = Missing
    /\ ~DictHas(ms[m]._parameters, key)
    /\ ~DictHas(ms[m]._modules, key)

----------------------------------------------------------------------------
(* Properties *)

\* C1: on every module, no name is at once a key of the parameter mapping
\* and of the child mapping, nor a plain instance field and a key of either.
C1_Exclusive ==
    \A m \in ModuleIds, k \in Names :
        /\ ~(DictHas(modules[m]._parameters, k) /\ DictHas(modules[m]._modules, k))
        /\ ~(modules[m].dict[k] # Missing /\ DictHas(modules[m]._parameters, k))
        /\ ~(modules[m].dict[k] # Missing /\ DictHas(modules[m]._modules, k))

\* C2: when eval() has returned on a module, training is False on it and on
\* every descendant; when train() has returned, training is True on all.
C2_ModeReachesSubtree ==
    /\ last.op = "eval" =>
          \A d \in Descendants(modules, last.self) :
              Training(modules, d) = PyBool(FALSE)
    /\ last.op = "train" =>
          \A d \in Descendants(modules, last.self) :
              Training(modules, d) = PyBool(TRUE)

\* eval() has returned on the root of a chain root -> child -> grandchild
C2_Witness ==
    /\ last.op = "eval"
    /\ \E c, g \in ModuleIds :
          /\ c # last.self /\ g # c /\ g # last.self
          /\ c \in SeqToSet(Modules(modules, last.self))
          /\ g \in SeqToSet(Modules(modules, c))

\* C3 as stated: named_parameters() holds exactly one pair for every
\* parameter of the subtree, under its dotted name, whatever the names are.
C3_Original ==
    read.op = "named_parameters" =>
        LET e == ExpectedPairs(modules, read.self)
        IN  /\ Len(read.ret) = Len(e)
            /\ SeqToSet(read.ret) \subseteq SeqToSet(e)
            /\ \A i \in 1..Len(e) :
                  Cardinality({j \in 1..Len(read.ret) : read.ret[j] = e[i]}) = 1

\* C3 amended: when no two parameters of the subtree have the same dotted
\* name, named_parameters() holds exactly one pair for every parameter of
\* the subtree, under its dotted name.
C3_CoversSubtree ==
    (read.op = "named_parameters" /\ NoCollision(modules, read.self)) =>
        LET e == ExpectedPairs(modules, read.self)
        IN  /\ Len(read.ret) = Len(e)
            /\ SeqToSet(read.ret) \subseteq SeqToSet(e)
            /\ \A i \in 1..Len(e) :
                  Cardinality({j \in 1..Len(read.ret) : read.ret[j] = e[i]}) = 1

\* named_parameters() on a root whose grandchild owns a parameter: the name
\* carries both child names
C3_Witness ==
    /\ read.op = "named_parameters"
    /\ NoCollision(modules, read.self)
    /\ \E i \in 1..Len(read.ret) :
          /\ Len(Slots(modules, read.self)[i][1]) = 2
          /\ read.ret[i][1] = <<"a", DOT, "b", DOT, "a">>

\* C4 as stated: named_parameters() lists the module's own parameters in
\* insertion order, then each child's contribution in child order.
C4_Original ==
    read.op = "named_parameters" => read.ret = ExpectedPairs(modules, read.self)

\* C4 amended: when no two parameters of the subtree have the same dotted
\* name, named_parameters() lists the module's own parameters in insertion
\* order, then each child's contribution in child order.
C4_OwnThenChildren ==
    (read.op = "named_parameters" /\ NoCollision(modules, read.self)) =>
        read.ret = ExpectedPairs(modules, read.self)

\* an own parameter followed by a child's parameter
C4_Witness ==
    /\ read.op = "named_parameters"
    /\ NoCollision(modules, read.self)
    /\ Len(read.ret) = 2
    /\ Len(modules[read.self]._parameters) = 1
    /\ read.ret[1][1] = modules[read.self]._parameters[1][1]
    /\ read.ret[1][1] = <<"a">>
    /\ read.ret[2][1] = <<"b", DOT, "a">>

\* C5: add_parameter(k, v) returns a Parameter whose value is v, stored
\* under k, and a read of k on the module then returns that Parameter.
C5_Original ==
    last.op = "add_parameter" =>
        /\ last.ret.t = "Parameter"
        /\ parameters[last.ret.id].value = last.arg
        /\ DictHas(modules[last.self]._parameters, last.key)
        /\ DictGet(modules[last.self]._parameters, last.key) = last.ret.id
        /\ (read.op = "getattr" /\ read.self = last.self /\ read.key = last.key)
              => read.ret = last.ret

\* C6: a read of a name returns the value most recently assigned to it.
C6_Original ==
    (/\ last.op = "setattr"
     /\ read.op = "getattr" /\ read.self = last.self /\ read.key = last.key)
        => read.ret = last.arg

C8_Original ==
    (read.op = "getattr" /\ Absent(modules, read.self, read.key))
        => read.ret = AttributeError

\* C9 as stated: update(y) sets value to y and keeps the name; if y can
\* track gradients its flag is on and, if the Parameter has a name, y
\* carries that name.
C9_Original ==
    last.op = "update" =>
        /\ parameters[last.self].value = last.arg
        /\ parameters[last.self].name = last.key
        /\ HasRequiresGrad(last.arg) =>
              /\ variables[last.arg.id].requires_grad
              /\ last.key # NoName => variables[last.arg.id].name = last.key

\* C9 amended: update(y) sets value to y and keeps the name; if y can track
\* gradients its flag is on and, if the Parameter has a non-empty name, y
\* carries that name.
C9_UpdateKeepsName ==
    last.op = "update" =>
        /\ parameters[last.self].value = last.arg
        /\ parameters[last.self].name = last.key
        /\ HasRequiresGrad(last.arg) =>
              /\ variables[last.arg.id].requires_grad
              /\ Truthy(last.key) => variables[last.arg.id].name = last.key

\* a named Parameter updated to a value that can track gradients and was
\* not wrapped before
C9_Witness ==
    /\ last.op = "update"
    /\ Truthy(last.key)
    /\ HasRequiresGrad(last.arg)
    /\ parameters[last.self].value = last.arg
    /\ \A p \in 1..Len(parameters) : p # last.self => parameters[p].value # last.arg
    /\ variables[last.arg.id].name = last.key

\* C10: train() and eval() on a module change only the training flag of
\* that module and its descendants: every mapping, every other field, every
\* Parameter and every module outside the subtree stay as they were.
C10_ModeFrame ==
    [][(last'.op \in {"train", "eval"} /\ ops' = ops + 1) =>
          /\ parameters' = parameters
          /\ variables' = variables
          /\ \A m \in ModuleIds :
                /\ modules'[m]._modules = modules[m]._modules
                /\ modules'[m]._parameters = modules[m]._parameters
                /\ \A k \in Names : modules'[m].dict[k] = modules[m].dict[k]
                /\ m \notin Descendants(modules, last'.self) =>
                      modules'[m] = modules[m]
      ]_vars

\* train() has returned on a child whose parent stays in eval mode
C10_Witness ==
    /\ last.op = "train"
    /\ Training(modules, last.self) = PyBool(TRUE)
    /\ \E r \in ModuleIds :
          /\ r # last.self
          /\ last.self \in SeqToSet(Modules(modules, r))
          /\ Training(modules, r) = PyBool(FALSE)

====
